---------------------------- MODULE Spec2Model ----------------------------
(***************************************************************************)
(* Model of the tree-building and aggregation engine of StructView.py:     *)
(* the extension classifier, the shared insertion routine, the aggregator, *)
(* the directory adapter, the four archive adapters and the dispatcher.    *)
(*                                                                         *)
(* Strings are sequences of one-character strings, so that splitting,      *)
(* lowercasing and comparing are computed and not assumed.  A Counter is a *)
(* function from extension tokens to positive counts; a tree node is a     *)
(* record name / dirs / ext_counts / perm_denied / note, where             *)
(* perm_denied = FALSE and note = "" stand for an absent key.              *)
(***************************************************************************)
EXTENDS Integers, Sequences, FiniteSets, TLC

\* ------------------------------------------------------------------ bounds
MaxNameLen == 4
MaxEntries == 3
MaxFsEntries == 3
MaxDenied == 1

\* ----------------------------------------------------------------- strings
UpperChars == <<"A","B","C","D","E","F","G","H","I","J","K","L","M",
                "N","O","P","Q","R","S","T","U","V","W","X","Y","Z">>
LowerChars == <<"a","b","c","d","e","f","g","h","i","j","k","l","m",
                "n","o","p","q","r","s","t","u","v","w","x","y","z">>
\* the characters the model uses, in code-point order
CodePoints == <<".", "/", "0","1","2","3","4","5","6","7","8","9", "<", ">">>
              \o UpperChars \o LowerChars

Code(c) == CHOOSE i \in 1..Len(CodePoints) : CodePoints[i] = c

\* str.lower() on one character
LowerChar(c) ==
  IF \E i \in 1..Len(UpperChars) : UpperChars[i] = c
  THEN LowerChars[CHOOSE i \in 1..Len(UpperChars) : UpperChars[i] = c]
  ELSE c

\* str.lower()
Lower(s) == [i \in 1..Len(s) |-> LowerChar(s[i])]

\* s < t for Python strings: lexicographic by code point
RECURSIVE StrLess(_, _)
StrLess(s, t) ==
  IF t = <<>> THEN FALSE
  ELSE IF s = <<>> THEN TRUE
  ELSE IF s[1] # t[1] THEN Code(s[1]) < Code(t[1])
  ELSE StrLess(Tail(s), Tail(t))

\* s.rfind(c), 1-based; 0 when c does not occur
RFind(s, c) ==
  IF \E i \in 1..Len(s) : s[i] = c
  THEN CHOOSE i \in 1..Len(s) : s[i] = c /\ \A j \in (i+1)..Len(s) : s[j] # c
  ELSE 0

\* s.endswith(suf)
EndsWith(s, suf) ==
  /\ Len(suf) <= Len(s)
  /\ SubSeq(s, Len(s) - Len(suf) + 1, Len(s)) = suf

\* s.split('/'): the segments between separators, empty ones included
RECURSIVE Split(_)
Split(s) ==
  IF \A i \in 1..Len(s) : s[i] # "/" THEN <<s>>
  ELSE LET k == CHOOSE i \in 1..Len(s) :
                    s[i] = "/" /\ \A j \in 1..(i-1) : s[j] # "/"
       IN <<SubSeq(s, 1, k-1)>> \o Split(SubSeq(s, k+1, Len(s)))

\* [p for p in name.split('/') if p]
PartsOf(s) == SelectSeq(Split(s), LAMBDA p : p # <<>>)

\* os.path.basename (POSIX)
Basename(p) == SubSeq(p, RFind(p, "/") + 1, Len(p))

\* os.path.splitext(p)[1] (POSIX): the suffix from the last dot, when that dot
\* follows the last separator and some character between them is not a dot
SplitextExtCountingLeadingDots(p) ==
  LET dot == RFind(p, ".")
  IN IF dot > RFind(p, "/") /\ dot > 0
     THEN SubSeq(p, dot, Len(p))
     ELSE <<>>

SplitextExt(p) ==
  LET sepIndex == RFind(p, "/")
      dotIndex == RFind(p, ".")
  IN IF /\ dotIndex > sepIndex
        /\ \E k \in (sepIndex+1)..(dotIndex-1) : p[k] # "."
     THEN SubSeq(p, dotIndex, Len(p))
     ELSE <<>>

NoExt == <<"<","n","o","e","x","t",">">>

\* _ext_of
ExtOfKeepingCase(name) ==
  LET ext == SplitextExt(name) IN IF ext # <<>> THEN ext ELSE NoExt

_ext_of(name) ==
  LET ext == Lower(SplitextExt(name)) IN IF ext # <<>> THEN ext ELSE NoExt

\* ---------------------------------------------------------------- counters
EmptyCounter == <<>>

\* c[k] += 1
Inc(c, k) ==
  IF k \in DOMAIN c THEN [c EXCEPT ![k] = @ + 1] ELSE c @@ (k :> 1)

\* c.update(d): add d's counts to c's
CounterUpdate(c, d) ==
  [k \in (DOMAIN c) \cup (DOMAIN d) |->
     (IF k \in DOMAIN c THEN c[k] ELSE 0) + (IF k \in DOMAIN d THEN d[k] ELSE 0)]

\* c.get(k, 0)
Get(c, k) == IF k \in DOMAIN c THEN c[k] ELSE 0

RECURSIVE SumOver(_, _)
SumOver(c, keys) ==
  IF keys = {} THEN 0
  ELSE LET k == CHOOSE x \in keys : TRUE IN c[k] + SumOver(c, keys \ {k})

\* sum(c.values())
Total(c) == SumOver(c, DOMAIN c)

\* ------------------------------------------------------------------- nodes
NewNode(nm) ==
  [name |-> nm, dirs |-> <<>>, ext_counts |-> EmptyCounter,
   perm_denied |-> FALSE, note |-> ""]

\* for p in parts[:-1]: descend into the first child named p, or append a new
\* one; then cur["ext_counts"][ext] += 1
RECURSIVE InsertUnderAlwaysAppending(_, _, _)
InsertUnderAlwaysAppending(cur, dirparts, ext) ==
  IF dirparts = <<>>
  THEN [cur EXCEPT !.ext_counts = Inc(@, ext)]
  ELSE [cur EXCEPT
          !.dirs = Append(@, InsertUnderAlwaysAppending(NewNode(Head(dirparts)),
                                                        Tail(dirparts), ext))]

RECURSIVE InsertUnder(_, _, _)
InsertUnder(cur, dirparts, ext) ==
  IF dirparts = <<>>
  THEN [cur EXCEPT !.ext_counts = Inc(@, ext)]
  ELSE LET p == Head(dirparts)
           found == {i \in 1..Len(cur.dirs) : cur.dirs[i].name = p}
       IN IF found # {}
          THEN LET i == CHOOSE x \in found : \A y \in found : x <= y
               IN [cur EXCEPT !.dirs[i] = InsertUnder(@, Tail(dirparts), ext)]
          ELSE [cur EXCEPT
                  !.dirs = Append(@, InsertUnder(NewNode(p), Tail(dirparts), ext))]

\* parts[:-1]
ButLast(parts) == SubSeq(parts, 1, Len(parts) - 1)

_insert_path_into_tree(root, parts, ext) == InsertUnder(root, ButLast(parts), ext)

\* n["ext_counts"].update(d["ext_counts"]) for d = kids[i], kids[i+1], ...
RECURSIVE UpdateFrom(_, _, _)
UpdateFrom(c, kids, i) ==
  IF i > Len(kids) THEN c
  ELSE UpdateFrom(CounterUpdate(c, kids[i].ext_counts), kids, i + 1)

RECURSIVE _accumulate_counts(_)
_accumulate_counts(n) ==
  LET kids == [i \in 1..Len(n.dirs) |-> _accumulate_counts(n.dirs[i])]
  IN [n EXCEPT !.dirs = kids, !.ext_counts = UpdateFrom(n.ext_counts, kids, 1)]

\* ------------------------------------------------------- archive adapters
\* An archive entry is its internal path and whether the archive records it
\* as a directory.  A zip records a directory by the trailing separator.
Str_nm == <<"n",".","m">>
Str_drt == <<"d","/","r",".","t">>
Str_diap == <<"d","/","i","/","a",".","p">>
Str_d_ == <<"d","/">>
Str_eyT == <<"/","e","/","y",".","T">>
Str_d == <<"d">>
Str_di == <<"d","/","i">>

File(nm) == [name |-> nm, isdir |-> FALSE]
Dir(nm) == [name |-> nm, isdir |-> TRUE]

ArchiveEntries ==
  { File(Str_nm), File(Str_drt), File(Str_diap), Dir(Str_d_), File(Str_eyT),
    File(<<>>), Dir(Str_d), Dir(Str_di) }

ZipEntries == {e \in ArchiveEntries : e.isdir = EndsWith(e.name, <<"/">>)}

Kinds == {"zip", "tar", "7z", "rar"}

EntriesOf(k) == IF k = "zip" THEN ZipEntries ELSE ArchiveEntries

\* parts = [p for p in name.split('/') if p]; if not parts: continue;
\* ext = _ext_of(parts[-1]); _insert_path_into_tree(root, parts, ext):
\* the calls of _insert_path_into_tree this makes, none or one
InsertCall(nm) ==
  LET parts == PartsOf(nm)
  IN IF parts = <<>> THEN <<>>
     ELSE <<[parts |-> parts, ext |-> _ext_of(parts[Len(parts)])]>>

\* one iteration of each adapter's loop, as the calls it makes
ZipLoopCallsKeepingMarkers(e) == InsertCall(e.name)

ZipLoopCalls(e) == IF EndsWith(e.name, <<"/">>) THEN <<>> ELSE InsertCall(e.name)

TarLoopCalls(e) == IF e.isdir THEN <<>> ELSE InsertCall(e.name)

SevenZLoopCalls(e) == InsertCall(e.name)

RarLoopCalls(e) == IF e.isdir THEN <<>> ELSE InsertCall(e.name)

LoopCalls(k, e) ==
  CASE k = "zip" -> ZipLoopCalls(e)
    [] k = "tar" -> TarLoopCalls(e)
    [] k = "7z"  -> SevenZLoopCalls(e)
    [] k = "rar" -> RarLoopCalls(e)

\* the tree after the calls cs, made in order from index i on
RECURSIVE ApplyCalls(_, _, _)
ApplyCalls(rt, cs, i) ==
  IF i > Len(cs) THEN rt
  ELSE ApplyCalls(_insert_path_into_tree(rt, cs[i].parts, cs[i].ext), cs, i + 1)

LoopBody(k, rt, e) == ApplyCalls(rt, LoopCalls(k, e), 1)

Py7zrMissing == "py7zr is not installed. Install with: pip install py7zr"
RarfileMissing == "rarfile is not installed. Install with: pip install rarfile"

\* the adapter's guard on its optional decoder: "" or the RuntimeError's message
MissingDecoder(k, py7zr, rarfile) ==
  IF k = "7z" /\ ~py7zr THEN Py7zrMissing
  ELSE IF k = "rar" /\ ~rarfile THEN RarfileMissing
  ELSE ""

ArchivePath(k) ==
  CASE k = "zip" -> <<"/","z",".","z","i","p">>
    [] k = "tar" -> <<"/","z",".","t","a","r">>
    [] k = "7z"  -> <<"/","z",".","7","z">>
    [] k = "rar" -> <<"/","z",".","r","a","r">>

\* ------------------------------------------------------ directory adapter
\* The file system: a function from the path of a directory to whether listing
\* it is refused and to its entries in the order os.scandir yields them.  An
\* entry has a name, what it is ("file", "dir", or "other" for a link or a
\* special file) and whether asking its type raises PermissionError.  A
\* directory whose type check raises is never listed, and has no listing here.
Str_alpha == <<"a","l","p","h","a">>
Str_Beta == <<"B","e","t","a">>
Str_Gamma == <<"G","a","m","m","a">>
Str_xt == <<"x",".","t">>
Str_YT == <<"Y",".","T">>
Str_n == <<"n">>
Str_l == <<"l">>
Str_m == <<"m">>
FsRoot == <<"/","r">>

FsEntry(nm, k, r) == [name |-> nm, kind |-> k, raises |-> r]

FsEntries ==
  { FsEntry(Str_alpha, "dir", FALSE), FsEntry(Str_Beta, "dir", FALSE),
    FsEntry(Str_Gamma, "dir", FALSE), FsEntry(Str_xt, "file", FALSE),
    FsEntry(Str_YT, "file", FALSE), FsEntry(Str_n, "file", TRUE),
    FsEntry(Str_l, "other", FALSE), FsEntry(Str_m, "dir", TRUE) }

EmptyDir == [denied |-> FALSE, entries |-> <<>>]

\* os.path.join(path, name), which is entry.path
Join(p, nm) == IF EndsWith(p, <<"/">>) THEN p \o nm ELSE p \o <<"/">> \o nm

\* subdirs, as the loop over the listing leaves it
SubdirsOf(p, ents) ==
  LET ds == SelectSeq(ents, LAMBDA e : ~e.raises /\ e.kind = "dir")
  IN [i \in 1..Len(ds) |-> Join(p, ds[i].name)]

\* direct_exts, as the loop over the listing leaves it
RECURSIVE DirectExts(_, _)
DirectExts(ents, i) ==
  IF i = 0 THEN EmptyCounter
  ELSE LET e == ents[i]
           before == DirectExts(ents, i - 1)
       IN IF ~e.raises /\ e.kind = "file" THEN Inc(before, _ext_of(e.name))
          ELSE before

SortKeyKeepingCase(p) == Basename(p)

\* key=lambda p: os.path.basename(p).lower()
SortKey(p) == Lower(Basename(p))

\* sorted(subdirs, key=...): stable, ascending by key
RECURSIVE Sorted(_)
Sorted(s) ==
  IF s = <<>> THEN <<>>
  ELSE LET x == s[Len(s)]
           acc == Sorted(SubSeq(s, 1, Len(s) - 1))
           k == Cardinality({i \in 1..Len(acc) : ~StrLess(SortKey(x), SortKey(acc[i]))})
       IN SubSeq(acc, 1, k) \o <<x>> \o SubSeq(acc, k + 1, Len(acc))

ScandirNeverRefused(dk, p) == FALSE

\* os.scandir(path) raises PermissionError
ScandirRefused(dk, p) == dk[p].denied

CumulativeOfDirectOnly(direct_exts, children) == direct_exts

\* cumulative = Counter(direct_exts); cumulative.update(child's ext_counts)
\* for every child
Cumulative(direct_exts, children) == UpdateFrom(direct_exts, children, 1)

RECURSIVE _build_fs_tree(_, _, _)
_build_fs_tree(dk, p, isfile) ==
  LET node == NewNode(IF Basename(p) # <<>> THEN Basename(p) ELSE p)
  IN IF isfile THEN [node EXCEPT !.ext_counts = Inc(@, _ext_of(p))]
     ELSE IF ScandirRefused(dk, p) THEN [node EXCEPT !.perm_denied = TRUE]
     ELSE LET subs == Sorted(SubdirsOf(p, dk[p].entries))
              direct_exts == DirectExts(dk[p].entries, Len(dk[p].entries))
              children == [i \in 1..Len(subs) |-> _build_fs_tree(dk, subs[i], FALSE)]
              cumulative == Cumulative(direct_exts, children)
          IN [node EXCEPT !.dirs = children, !.ext_counts = cumulative]

\* the number of entries the file system holds
RECURSIVE CountEntries(_, _)
CountEntries(dk, keys) ==
  IF keys = {} THEN 0
  ELSE LET k == CHOOSE x \in keys : TRUE
       IN Len(dk[k].entries) + CountEntries(dk, keys \ {k})

\* --------------------------------------------------------------- dispatcher
\* p.strip(chars): leading and trailing characters of the set removed
RECURSIVE Strip(_, _)
Strip(s, chars) ==
  IF s = <<>> THEN s
  ELSE IF s[1] \in chars THEN Strip(Tail(s), chars)
  ELSE IF s[Len(s)] \in chars THEN Strip(SubSeq(s, 1, Len(s) - 1), chars)
  ELSE s

\* _normalize_path, on paths that are absolute and normal once unquoted and
\* hold no '~' and no '$': expanduser, expandvars and abspath leave those alone
_normalize_path(p) == Strip(Strip(Strip(p, {" "}), {"\""}), {"'"})

Returned(n) == [err |-> "", node |-> n]
Raised(msg) == [err |-> msg, node |-> NewNode(<<>>)]

\* the adapter's loop over a whole listing
RECURSIVE InsertAll(_, _, _, _)
InsertAll(k, rt, entries, i) ==
  IF i > Len(entries) THEN rt
  ELSE InsertAll(k, LoopBody(k, rt, entries[i]), entries, i + 1)

\* an archive adapter called on the archive at path p that lists entries
BuildArchiveTree(k, p, entries, py7zr, rarfile) ==
  IF MissingDecoder(k, py7zr, rarfile) # ""
  THEN Raised(MissingDecoder(k, py7zr, rarfile))
  ELSE Returned(_accumulate_counts(InsertAll(k, NewNode(Basename(p)), entries, 1)))

_build_zip_tree(p, w) == BuildArchiveTree("zip", p, w.entries, w.py7zr, w.rarfile)
_build_tar_tree(p, w) == BuildArchiveTree("tar", p, w.entries, w.py7zr, w.rarfile)
_build_7z_tree(p, w) == BuildArchiveTree("7z", p, w.entries, w.py7zr, w.rarfile)
_build_rar_tree(p, w) == BuildArchiveTree("rar", p, w.entries, w.py7zr, w.rarfile)

Suffix7z == <<".","7","z">>
SuffixRar == <<".","r","a","r">>
Note7z == "Install py7zr to inspect inside this 7z archive."
NoteRar == "Install rarfile to inspect inside this RAR archive."
PathNotFound == "Path not found"

NoteNodeWithoutCount(p, text) == [NewNode(Basename(p)) EXCEPT !.note = text]

\* the node of an archive left unexpanded
NoteNode(p, text) ==
  [NewNode(Basename(p)) EXCEPT !.note = text, !.ext_counts = Inc(@, _ext_of(p))]

\* What the world w answers: w.pkind is what the normalized path is ("dir",
\* "file" or "missing"), w.zipSig and w.tarSig what zipfile.is_zipfile and
\* tarfile.is_tarfile say, w.py7zr and w.rarfile whether the decoders were
\* imported, w.entries the archive's listing and w.dk the file system.
build_tree_summary(raw, w) ==
  LET p == _normalize_path(raw)
  IN IF w.pkind = "dir" THEN Returned(_build_fs_tree(w.dk, p, FALSE))
     ELSE IF w.pkind = "file" THEN
       IF w.zipSig THEN _build_zip_tree(p, w)
       ELSE IF w.tarSig THEN _build_tar_tree(p, w)
       ELSE IF EndsWith(Lower(p), Suffix7z) THEN
         IF w.py7zr THEN _build_7z_tree(p, w) ELSE Returned(NoteNode(p, Note7z))
       ELSE IF EndsWith(Lower(p), SuffixRar) THEN
         IF w.rarfile THEN _build_rar_tree(p, w) ELSE Returned(NoteNode(p, NoteRar))
       ELSE Returned(_build_fs_tree(w.dk, p, TRUE))
     ELSE Raised(PathNotFound)

VARIABLES mode, pc, name, token, retoken,
          has7z, hasRar, kind, path, listing, calls, root, accRuns, err, disk,
          pkind, zipSig, tarSig

vars == <<mode, pc, name, token, retoken,
          has7z, hasRar, kind, path, listing, calls, root, accRuns, err, disk,
          pkind, zipSig, tarSig>>

extVars == <<name, token, retoken>>
archiveVars == <<has7z, hasRar, kind, path, listing, calls, root, accRuns, err>>
fsVars == <<disk>>
probeVars == <<pkind, zipSig, tarSig>>

\* ------------------------------------------------------- extension classifier
ExtAlphabet == {"t", "T", ".", "/"}

RECURSIVE StringsUpTo(_, _)
StringsUpTo(alphabet, n) ==
  IF n = 0 THEN {<<>>}
  ELSE LET shorter == StringsUpTo(alphabet, n - 1)
       IN shorter \cup {<<c>> \o s : c \in alphabet, s \in {x \in shorter : Len(x) = n - 1}}

Names == StringsUpTo(ExtAlphabet, MaxNameLen)

IdleExt == name = <<>> /\ token = <<>> /\ retoken = <<>>

IdleArchive ==
  /\ has7z = FALSE /\ hasRar = FALSE /\ kind = "none" /\ path = <<>>
  /\ listing = <<>> /\ calls = <<>> /\ root = NewNode(<<>>) /\ accRuns = 0 /\ err = ""

IdleFs == disk = <<>>

IdleProbe == pkind = "none" /\ zipSig = FALSE /\ tarSig = FALSE

InitExt ==
  /\ mode = "ext"
  /\ pc = "start"
  /\ name \in Names
  /\ token = <<>>
  /\ retoken = <<>>
  /\ IdleArchive
  /\ IdleFs
  /\ IdleProbe

\* token = _ext_of(name)
Classify ==
  /\ mode = "ext" /\ pc = "start"
  /\ token' = _ext_of(name)
  /\ pc' = "classified"
  /\ UNCHANGED <<mode, name, retoken, archiveVars, fsVars, probeVars>>

\* retoken = _ext_of(token)
Reclassify ==
  /\ mode = "ext" /\ pc = "classified"
  /\ retoken' = _ext_of(token)
  /\ pc' = "reclassified"
  /\ UNCHANGED <<mode, name, token, archiveVars, fsVars, probeVars>>

\* ----------------------------------------------- an archive adapter, stepwise
InitArchive ==
  /\ mode = "archive"
  /\ pc = "start"
  /\ IdleExt
  /\ IdleFs
  /\ IdleProbe
  /\ has7z \in BOOLEAN /\ hasRar \in BOOLEAN
  /\ kind \in Kinds
  /\ path = ArchivePath(kind)
  /\ listing = <<>> /\ calls = <<>> /\ root = NewNode(<<>>) /\ accRuns = 0 /\ err = ""

\* the adapter is entered: the decoder guard, then the root node
Open ==
  /\ mode = "archive" /\ pc = "start"
  /\ IF MissingDecoder(kind, has7z, hasRar) # ""
     THEN /\ err' = MissingDecoder(kind, has7z, hasRar)
          /\ pc' = "raised"
          /\ UNCHANGED root
     ELSE /\ root' = NewNode(Basename(path))
          /\ pc' = "loop"
          /\ UNCHANGED err
  /\ UNCHANGED <<mode, extVars, has7z, hasRar, kind, path, listing, calls, accRuns, fsVars, probeVars>>

\* the loop reads the archive's next entry
ReadEntry(k) ==
  /\ mode = "archive" /\ pc = "loop" /\ kind = k
  /\ Len(listing) < MaxEntries
  /\ \E e \in EntriesOf(k) :
       /\ listing' = Append(listing, e)
       /\ calls' = calls \o LoopCalls(k, e)
       /\ root' = LoopBody(k, root, e)
  /\ UNCHANGED <<mode, pc, extVars, has7z, hasRar, kind, path, accRuns, err, fsVars, probeVars>>

ZipEntry == ReadEntry("zip")
TarEntry == ReadEntry("tar")
SevenZEntry == ReadEntry("7z")
RarEntry == ReadEntry("rar")

\* the listing is exhausted: _accumulate_counts(root); return root
Aggregate ==
  /\ mode = "archive" /\ pc = "loop"
  /\ root' = _accumulate_counts(root)
  /\ accRuns' = accRuns + 1
  /\ pc' = "done"
  /\ UNCHANGED <<mode, extVars, has7z, hasRar, kind, path, listing, calls, err, fsVars, probeVars>>

\* ------------------------------------------------ the directory adapter's run
InitFs ==
  /\ mode = "fs"
  /\ pc = "start"
  /\ IdleExt
  /\ has7z = FALSE /\ hasRar = FALSE /\ kind = "none" /\ path = FsRoot
  /\ listing = <<>> /\ calls = <<>> /\ root = NewNode(<<>>) /\ accRuns = 0 /\ err = ""
  /\ disk = (FsRoot :> EmptyDir)
  /\ IdleProbe

\* before the walk, an entry appears in a directory of the file system
Create ==
  /\ mode = "fs" /\ pc = "start"
  /\ CountEntries(disk, DOMAIN disk) < MaxFsEntries
  /\ \E d \in DOMAIN disk, e \in FsEntries :
       /\ \A i \in 1..Len(disk[d].entries) : disk[d].entries[i].name # e.name
       /\ disk' = LET added == [disk EXCEPT ![d].entries = Append(@, e)]
                  IN IF e.kind = "dir" /\ ~e.raises
                     THEN added @@ (Join(d, e.name) :> EmptyDir)
                     ELSE added
  /\ UNCHANGED <<mode, pc, extVars, archiveVars, probeVars>>

\* before the walk, a directory becomes unlistable
Chmod ==
  /\ mode = "fs" /\ pc = "start"
  /\ \E d \in DOMAIN disk :
       /\ ~disk[d].denied
       /\ Cardinality({x \in DOMAIN disk : disk[x].denied}) < MaxDenied
       /\ disk' = [disk EXCEPT ![d].denied = TRUE]
  /\ UNCHANGED <<mode, pc, extVars, archiveVars, probeVars>>

\* root = _build_fs_tree(path)
BuildFs ==
  /\ mode = "fs" /\ pc = "start"
  /\ root' = _build_fs_tree(disk, path, FALSE)
  /\ pc' = "done"
  /\ UNCHANGED <<mode, extVars, has7z, hasRar, kind, path, listing, calls, accRuns, err, fsVars, probeVars>>

\* ------------------------------------------------------ the dispatcher's run
Str_q7z == <<"\"","/","a","/","f",".","7","z","\"">>
Str_f7z == <<"/","a","/","f",".","7","z">>
Str_F7Z == <<"/","a","/","F",".","7","Z">>
Str_dot7z == <<"/","a","/",".","7","z">>
Str_frar == <<"/","a","/","f",".","R","a","r">>
Str_ft == <<" ","/","a","/","f",".","t">>
Str_7zf == <<"/","a",".","7","z","/","f">>

DispatchPaths == {Str_q7z, Str_f7z, Str_F7Z, Str_dot7z, Str_frar, Str_ft, Str_7zf}

\* the archive of the scenario: docs/readme.txt, docs/img/a.png, notes.md
SampleListing == <<File(Str_drt), File(Str_diap), File(Str_nm)>>

\* a directory with one file and one empty subdirectory
SampleDisk(p) ==
  (p :> [denied |-> FALSE,
         entries |-> <<FsEntry(Str_xt, "file", FALSE), FsEntry(Str_alpha, "dir", FALSE)>>])
  @@ (Join(p, Str_alpha) :> EmptyDir)

World ==
  [pkind |-> pkind, zipSig |-> zipSig, tarSig |-> tarSig, py7zr |-> has7z,
   rarfile |-> hasRar, entries |-> listing, dk |-> disk]

InitDispatch ==
  /\ mode = "dispatch"
  /\ pc = "start"
  /\ IdleExt
  /\ has7z \in BOOLEAN /\ hasRar \in BOOLEAN
  /\ kind = "none"
  /\ path \in DispatchPaths
  /\ pkind \in {"dir", "file", "missing"}
  /\ zipSig \in BOOLEAN /\ tarSig \in BOOLEAN
  /\ listing = SampleListing
  /\ disk = SampleDisk(_normalize_path(path))
  /\ calls = <<>> /\ root = NewNode(<<>>) /\ accRuns = 0 /\ err = ""

\* root = build_tree_summary(path), or the exception it raises
Summarize ==
  /\ mode = "dispatch" /\ pc = "start"
  /\ LET out == build_tree_summary(path, World)
     IN /\ root' = out.node
        /\ err' = out.err
        /\ pc' = IF out.err = "" THEN "done" ELSE "raised"
  /\ UNCHANGED <<mode, extVars, has7z, hasRar, kind, path, listing, calls, accRuns,
                 fsVars, probeVars>>

Init == InitExt \/ InitArchive \/ InitFs \/ InitDispatch

Next ==
  \/ Classify \/ Reclassify
  \/ Open \/ ZipEntry \/ TarEntry \/ SevenZEntry \/ RarEntry \/ Aggregate
  \/ Create \/ Chmod \/ BuildFs
  \/ Summarize

Spec == Init /\ [][Next]_vars

\* ==================================================================== claims
\* every node of a tree, with the names on the way from the root to it
RECURSIVE NodesUnder(_, _)
NodesUnder(n, p) ==
  {[path |-> p, node |-> n]} \cup
  UNION {NodesUnder(n.dirs[i], Append(p, n.dirs[i].name)) : i \in 1..Len(n.dirs)}

IsPrefix(p, q) == Len(p) <= Len(q) /\ SubSeq(q, 1, Len(p)) = p

ChildNames(n) == [i \in 1..Len(n.dirs) |-> n.dirs[i].name]

Classified == mode = "ext" /\ pc \in {"classified", "reclassified"}
Reclassified == mode = "ext" /\ pc = "reclassified"

\* the name is a file name whose last dot follows a character that is no dot
HasExtension(nm) ==
  /\ \A i \in 1..Len(nm) : nm[i] # "/"
  /\ \E i \in 1..Len(nm) : nm[i] = "." /\ \E j \in 1..(i-1) : nm[j] # "."

\* the name holds no dot, or only leading dots (a dotfile with no suffix)
HasNoExtension(nm) ==
  /\ \A i \in 1..Len(nm) : nm[i] # "/"
  /\ \A i \in 1..Len(nm) : nm[i] = "." => \A j \in 1..(i-1) : nm[j] = "."

\* the names that differ from nm in letter case only
CaseVariants(nm) ==
  {other \in [1..Len(nm) -> ExtAlphabet] :
     \A i \in 1..Len(nm) : LowerChar(other[i]) = LowerChar(nm[i])}

\* C7: _ext_of gives one token to all names that differ only in letter case;
\* for a name with an extension the token is the name's suffix from its last
\* dot, lowercased, leading dot included; for a name with no dot and for a
\* dotfile with no further suffix it is "<noext>", which is not empty and is
\* no extension token (those start with a dot).
C7_ExtOfCaseInsensitiveTotal ==
  Classified =>
    /\ \A other \in CaseVariants(name) : _ext_of(other) = token
    /\ token # <<>>
    /\ HasExtension(name) =>
         /\ token = Lower(SubSeq(name, RFind(name, "."), Len(name)))
         /\ token[1] = "."
         /\ token # NoExt
    /\ HasNoExtension(name) => token = NoExt
    /\ token # NoExt => token[1] = "." /\ token = Lower(token)

C7_Witness ==
  /\ Classified
  /\ name = <<"T", ".", "T">>
  /\ token = <<".", "t">>

\* C8 as stated: classifying the token again gives the token back.
C8_Idempotent == Reclassified => retoken = token

\* C8 amended: classifying a token that _ext_of returned always gives
\* "<noext>", so the second classification equals the first exactly when the
\* name has no extension.
C8_ReclassifiedIsNoExt ==
  Reclassified =>
    /\ retoken = NoExt
    /\ ((retoken = token) <=> ~HasExtension(Basename(name)))

C8_Witness ==
  /\ Reclassified
  /\ name = <<"t", ".", "T">>
  /\ token = <<".", "t">>
  /\ retoken = NoExt

ArchiveRunning == mode = "archive" /\ pc \in {"loop", "done"}
ArchiveBuilt == mode = "archive" /\ pc = "done"

\* the archive records the entry as a directory
IsDirEntry(k, e) == IF k = "zip" THEN EndsWith(e.name, <<"/">>) ELSE e.isdir

\* the entries of the listing that are files with a name
FileEntries(k, l) ==
  {i \in 1..Len(l) : ~IsDirEntry(k, l[i]) /\ PartsOf(l[i].name) # <<>>}

\* the directory path of an entry and the extension of its last segment
DirPathOf(e) == ButLast(PartsOf(e.name))
ExtOfEntry(e) == _ext_of(PartsOf(e.name)[Len(PartsOf(e.name))])

NoTwinChildren(n) ==
  \A i, j \in 1..Len(n.dirs) : n.dirs[i].name = n.dirs[j].name => i = j

\* C2 as stated: once an archive adapter has returned, the root's total is the
\* number of non-directory entries of the listing (directory entries add to
\* no count).
C2_RootTotalIsFileEntryCount ==
  ArchiveBuilt => Total(root.ext_counts) = Cardinality(FileEntries(kind, listing))

\* C2 holds of the adapters that skip directory entries.
C2_HoldsExceptSevenZ ==
  ArchiveBuilt /\ kind # "7z" =>
    Total(root.ext_counts) = Cardinality(FileEntries(kind, listing))

\* C3 as stated: aggregation runs once, after the insertions, and then every
\* node counts, per extension, the file entries whose directory path starts
\* with the node's path.
C3_AggregatedOncePerPrefix ==
  ArchiveRunning =>
    /\ pc = "loop" => accRuns = 0
    /\ pc = "done" =>
         /\ accRuns = 1
         /\ \A rec \in NodesUnder(root, <<>>) :
              \A x \in (DOMAIN rec.node.ext_counts)
                         \cup {ExtOfEntry(listing[i]) : i \in FileEntries(kind, listing)} :
                Get(rec.node.ext_counts, x) =
                  Cardinality({i \in FileEntries(kind, listing) :
                                 /\ IsPrefix(rec.path, DirPathOf(listing[i]))
                                 /\ ExtOfEntry(listing[i]) = x})

\* C3 holds of the adapters that skip directory entries.
C3_HoldsExceptSevenZ == kind # "7z" => C3_AggregatedOncePerPrefix

\* C4: after any sequence of _insert_path_into_tree calls no node has two
\* children of one name; every node stands for a directory prefix of some
\* call, never for the file name; and before aggregation a node's total is
\* the number of calls whose directory path is the node's path.
C4_PrefixSharing ==
  mode = "archive" /\ pc = "loop" =>
    \A rec \in NodesUnder(root, <<>>) :
      /\ NoTwinChildren(rec.node)
      /\ rec.path # <<>> =>
           \E i \in 1..Len(calls) : IsPrefix(rec.path, ButLast(calls[i].parts))
      /\ Total(rec.node.ext_counts) =
           Cardinality({i \in 1..Len(calls) : ButLast(calls[i].parts) = rec.path})

\* d/i/a.p inserted twice: one node d, one child i, total 2 at i
C4_Witness ==
  /\ mode = "archive" /\ pc = "loop"
  /\ Len(calls) = 2
  /\ calls[1].parts = <<Str_d, <<"i">>, <<"a", ".", "p">>>>
  /\ calls[2].parts = calls[1].parts
  /\ ChildNames(root) = <<Str_d>>
  /\ ChildNames(root.dirs[1]) = <<(<<"i">>)>>
  /\ root.dirs[1].dirs[1].ext_counts = (<<".", "p">> :> 2)

\* C9 as stated: a directory marker (a path with a trailing separator) creates
\* or locates the node of its directory.
C9_MarkerHasNode ==
  ArchiveRunning =>
    \A i \in 1..Len(listing) :
      EndsWith(listing[i].name, <<"/">>) /\ PartsOf(listing[i].name) # <<>> =>
        \E rec \in NodesUnder(root, <<>>) : rec.path = PartsOf(listing[i].name)

\* C9 amended: in the zip, tar and rar adapters a directory entry is skipped.
\* It creates no node (the nodes are exactly the root and the directory
\* prefixes of the entries that are no directory entries) and adds no count.
C9_MarkerSkipped ==
  ArchiveRunning /\ kind # "7z" =>
    /\ \A rec \in NodesUnder(root, <<>>) :
         rec.path # <<>> =>
           \E i \in 1..Len(listing) :
             /\ ~IsDirEntry(kind, listing[i])
             /\ IsPrefix(rec.path, DirPathOf(listing[i]))
    /\ \A i \in 1..Len(listing) :
         ~IsDirEntry(kind, listing[i]) =>
           \A k \in 1..Len(DirPathOf(listing[i])) :
             \E rec \in NodesUnder(root, <<>>) :
               rec.path = SubSeq(DirPathOf(listing[i]), 1, k)
    /\ pc = "done" =>
         Total(root.ext_counts) = Cardinality(FileEntries(kind, listing))

\* a zip that lists the directory d only as a marker, besides one file
C9_Witness ==
  /\ ArchiveBuilt /\ kind = "zip"
  /\ listing = <<Dir(Str_d_), File(Str_nm)>>
  /\ root.dirs = <<>>
  /\ root.ext_counts = (<<".", "m">> :> 1)

FsBuilt == mode = "fs" /\ pc = "done"

\* every node of a directory tree, with the path of its directory
RECURSIVE NodesUnderFs(_, _)
NodesUnderFs(n, key) ==
  {[key |-> key, node |-> n]} \cup
  UNION {NodesUnderFs(n.dirs[i], Join(key, n.dirs[i].name)) : i \in 1..Len(n.dirs)}

\* directory d is the directory at key or lies below it
Under(d, key) == d = key \/ IsPrefix(key \o <<"/">>, d)

\* the regular files below key whose type can be asked: <<directory, index>>
FilesBelow(dk, key) ==
  {f \in UNION {{<<d, i>> : i \in 1..Len(dk[d].entries)} : d \in DOMAIN dk} :
     /\ Under(f[1], key)
     /\ dk[f[1]].entries[f[2]].kind = "file"
     /\ ~dk[f[1]].entries[f[2]].raises}

\* those of them that lie in no directory whose listing is refused
VisibleFilesBelow(dk, key) ==
  {f \in FilesBelow(dk, key) :
     \A q \in DOMAIN dk : Under(q, key) /\ Under(f[1], q) => ~dk[q].denied}

ExtOfFile(dk, f) == _ext_of(dk[f[1]].entries[f[2]].name)

CountsAre(c, dk, files) ==
  /\ Total(c) = Cardinality(files)
  /\ \A x \in (DOMAIN c) \cup {ExtOfFile(dk, f) : f \in files} :
       Get(c, x) = Cardinality({f \in files : ExtOfFile(dk, f) = x})

\* C1 as stated: every node that is not flagged perm_denied counts, in total
\* and per extension, the regular files anywhere in its subtree.
C1_CountsAllFilesBelow ==
  FsBuilt =>
    \A rec \in NodesUnderFs(root, path) :
      ~rec.node.perm_denied =>
        CountsAre(rec.node.ext_counts, disk, FilesBelow(disk, rec.key))

\* C1 amended: every node that is not flagged perm_denied counts, in total and
\* per extension, the regular files of its subtree that the walk can list:
\* those that lie in no directory whose listing is refused and whose type
\* check does not raise.
C1_CountsVisibleFilesBelow ==
  FsBuilt =>
    \A rec \in NodesUnderFs(root, path) :
      ~rec.node.perm_denied =>
        CountsAre(rec.node.ext_counts, disk, VisibleFilesBelow(disk, rec.key))

\* Beta inside alpha holds Y.T, which counts at Beta, at alpha and at the root
C1_Witness ==
  /\ FsBuilt
  /\ ChildNames(root) = <<Str_alpha>>
  /\ ChildNames(root.dirs[1]) = <<Str_Beta>>
  /\ root.dirs[1].dirs[1].ext_counts = (<<".", "t">> :> 1)
  /\ root.dirs[1].ext_counts = (<<".", "t">> :> 1)
  /\ root.ext_counts = (<<".", "t">> :> 1)

\* the file system without the directories whose listing is refused
WithoutDenied(dk) ==
  [d \in DOMAIN dk |->
     [dk[d] EXCEPT !.entries =
        SelectSeq(@, LAMBDA e : ~(/\ e.kind = "dir" /\ ~e.raises
                                  /\ dk[Join(d, e.name)].denied))]]

\* the tree without the nodes flagged perm_denied
RECURSIVE PruneDenied(_)
PruneDenied(n) ==
  LET kept == SelectSeq(n.dirs, LAMBDA d : ~d.perm_denied)
  IN [n EXCEPT !.dirs = [i \in 1..Len(kept) |-> PruneDenied(kept[i])]]

\* C5: a refused listing is not propagated: the walk returns, the node of
\* that directory is flagged, with no counts and no children, and the rest of
\* the tree is the tree of the file system without that directory.
C5_DeniedIsolated ==
  FsBuilt =>
    /\ err = ""
    /\ \A rec \in NodesUnderFs(root, path) :
         /\ rec.node.perm_denied <=> disk[rec.key].denied
         /\ rec.node.perm_denied =>
              rec.node.ext_counts = EmptyCounter /\ rec.node.dirs = <<>>
    /\ ~root.perm_denied =>
         PruneDenied(root) = _build_fs_tree(WithoutDenied(disk), path, FALSE)

\* alpha is refused and hides x.t; the root holds Y.T beside it
C5_Witness ==
  /\ FsBuilt
  /\ Join(FsRoot, Str_alpha) \in DOMAIN disk
  /\ disk[Join(FsRoot, Str_alpha)].denied
  /\ Len(disk[Join(FsRoot, Str_alpha)].entries) = 1
  /\ ChildNames(root) = <<Str_alpha>>
  /\ root.dirs[1].perm_denied
  /\ root.ext_counts = (<<".", "t">> :> 1)

Dispatched == mode = "dispatch" /\ pc # "start"

\* a file with the suffix that is neither zip nor tar, its decoder absent
Unexpanded7z ==
  /\ pkind = "file" /\ ~zipSig /\ ~tarSig /\ ~has7z
  /\ EndsWith(Lower(_normalize_path(path)), Suffix7z)

UnexpandedRar ==
  /\ pkind = "file" /\ ~zipSig /\ ~tarSig /\ ~hasRar
  /\ ~EndsWith(Lower(_normalize_path(path)), Suffix7z)
  /\ EndsWith(Lower(_normalize_path(path)), SuffixRar)

\* C6: for such a file build_tree_summary raises nothing and returns a node
\* with no children, a note, and one count, of 1, for the file's own
\* extension; the adapter called directly raises, naming the missing decoder.
C6_DegradedNode ==
  /\ Dispatched /\ (Unexpanded7z \/ UnexpandedRar) =>
       /\ pc = "done" /\ err = ""
       /\ root.dirs = <<>>
       /\ root.note # ""
       /\ root.ext_counts = (_ext_of(Basename(_normalize_path(path))) :> 1)
  /\ mode = "archive" /\ pc # "start" /\ kind = "7z" /\ ~has7z =>
       pc = "raised" /\ err = Py7zrMissing
  /\ mode = "archive" /\ pc # "start" /\ kind = "rar" /\ ~hasRar =>
       pc = "raised" /\ err = RarfileMissing

C6_Witness ==
  /\ Dispatched /\ Unexpanded7z
  /\ path = Str_F7Z
  /\ root.note = Note7z
  /\ root.ext_counts = (Suffix7z :> 1)

\* the child names below path p in the order the calls first name them
RECURSIVE FirstSeen(_, _, _)
FirstSeen(cs, p, i) ==
  IF i = 0 THEN <<>>
  ELSE LET before == FirstSeen(cs, p, i - 1)
           d == ButLast(cs[i].parts)
       IN IF /\ IsPrefix(p, d) /\ Len(d) > Len(p)
             /\ \A j \in 1..Len(before) : before[j] # d[Len(p) + 1]
          THEN Append(before, d[Len(p) + 1])
          ELSE before

=============================================================================
